---------------------------- MODULE Spec2Model ----------------------------
(***************************************************************************)
(* Model of DISKU's threshold alerting engine (src/disku.py) and of the    *)
(* report handler that drives it (src/server.py).                          *)
(*                                                                         *)
(* Python values are modelled as follows.                                  *)
(*   - a dict is the sequence of its <<key, value>> items in insertion     *)
(*     order (CaseInsensitiveDict._find_key depends on that order);        *)
(*   - a number is a record [t, num, den]: an int n is [t |-> "int",       *)
(*     num |-> n, den |-> 1]; a float produced by a true division a / b    *)
(*     (or by int(v) / 100.0) is the exact quotient [t |-> "float",        *)
(*     num |-> a, den |-> b]; None is [t |-> "none", ...].  Comparisons    *)
(*     cross-multiply, which agrees with IEEE doubles as long as the two   *)
(*     quotients differ by more than one ulp (totals far below 2^45);      *)
(*   - an alert message is the sequence of its formatted lines, a line     *)
(*     being the record of the arguments handed to str.format (the         *)
(*     template disku.alert_msg is configuration, not code).               *)
(***************************************************************************)
EXTENDS Integers, Sequences, FiniteSets, TLC

(***************************************************************************)
(* Bounds of the model.                                                    *)
(***************************************************************************)
MaxTime == 4        \* the wall clock runs over 0..MaxTime
MaxFireTime == 1    \* most clock ticks that pass while the callback runs
MaxVal == 3         \* sample fields range over 0..MaxVal
MaxConds == 2       \* most conditions of an enumerated condition list
MaxFires == 3       \* most callback invocations counted in one run

(***************************************************************************)
(* Numbers and None.                                                       *)
(***************************************************************************)
None == [t |-> "none", num |-> 0, den |-> 1]
PyInt(n) == [t |-> "int", num |-> n, den |-> 1]
PyFloat(a, b) == [t |-> "float", num |-> a, den |-> b]

\* str.lower() on the strings that occur as keys and variable names
Lower(s) ==
  CASE s = "USED" -> "used"
    [] s = "Used" -> "used"
    [] s = "FREE" -> "free"
    [] s = "Free" -> "free"
    [] s = "TOTAL" -> "total"
    [] s = "Total" -> "total"
    [] s = "USED_p" -> "used_p"
    [] s = "Used_p" -> "used_p"
    [] s = "FREE_p" -> "free_p"
    [] s = "Free_p" -> "free_p"
    [] s = "TOTAL_p" -> "total_p"
    [] s = "Total_p" -> "total_p"
    [] s = "WebHook" -> "webhook"
    [] s = "Webhook" -> "webhook"
    [] s = "WebhookAlertChannel" -> "webhookalertchannel"
    [] s = "AlertChannel" -> "alertchannel"
    [] OTHER -> s

\* var += '_p' on the variable names that occur
AppendP(s) ==
  CASE s = "used" -> "used_p"
    [] s = "USED" -> "USED_p"
    [] s = "Used" -> "Used_p"
    [] s = "free" -> "free_p"
    [] s = "FREE" -> "FREE_p"
    [] s = "Free" -> "Free_p"
    [] s = "total" -> "total_p"
    [] s = "TOTAL" -> "TOTAL_p"
    [] s = "Total" -> "Total_p"
    [] s = "inode" -> "inode_p"
    [] s = "used_p" -> "used_p_p"
    [] OTHER -> "other_p"

(***************************************************************************)
(* CaseInsensitiveDict.                                                    *)
(***************************************************************************)
DictKeys(d) == [i \in 1..Len(d) |-> d[i][1]]

SeqRange(s) == {s[i] : i \in 1..Len(s)}

\* index of the first item whose key satisfies lower(k) = lkey, 0 if none
RECURSIVE FirstLowerIdx(_, _, _)
FirstLowerIdx(d, lkey, i) ==
  IF i > Len(d) THEN 0
  ELSE IF Lower(d[i][1]) = lkey THEN i
  ELSE FirstLowerIdx(d, lkey, i + 1)

_find_key(d, key) ==
  LET i == FirstLowerIdx(d, Lower(key), 1)
  IN IF i = 0 THEN key ELSE d[i][1]

__lower_keys__(d) == [i \in 1..Len(d) |-> Lower(d[i][1])]

__contains__(d, key) == _find_key(d, key) \in SeqRange(__lower_keys__(d))

\* dict.__getitem__ / dict.get / dict.__setitem__ on the exact key
ExactIdx(d, k) ==
  IF \E i \in 1..Len(d) : d[i][1] = k
  THEN CHOOSE i \in 1..Len(d) : d[i][1] = k
  ELSE 0

DictGet(d, key) ==
  LET i == ExactIdx(d, _find_key(d, key))
  IN IF i = 0 THEN None ELSE d[i][2]

__setitem__(d, key, val) ==
  LET k == _find_key(d, key)
      i == ExactIdx(d, k)
  IN IF i = 0 THEN Append(d, <<k, val>>)
     ELSE [d EXCEPT ![i] = <<k, val>>]


(***************************************************************************)
(* BinaryOperator and AlertCheck.                                          *)
(***************************************************************************)
Operators == {"<", "<=", ">", ">=", "=="}

\* l op r on two numbers, as Python compares an int or a float with another
NumCompare(op, l, r) ==
  LET a == l.num * r.den
      b == r.num * l.den
  IN CASE op = "<" -> a < b
       [] op = "<=" -> a <= b
       [] op = ">" -> a > b
       [] op = ">=" -> a >= b
       [] op = "==" -> a = b

\* BinaryOperator.__call__: None == x is False, an ordering with None raises
BinaryOperator(op, l, r) ==
  IF l.t = "none"
  THEN IF op = "==" THEN [exc |-> "", val |-> FALSE]
       ELSE [exc |-> "TypeError", val |-> FALSE]
  ELSE [exc |-> "", val |-> NumCompare(op, l, r)]

\* a parsed condition (var, op, val, raw): '50%' parses to the float 50 / 100.0
Cond(var, op, val, raw) == [var |-> var, op |-> op, val |-> val, raw |-> raw]

validate_params(du) ==
  /\ __contains__(du, "used")
  /\ __contains__(du, "free")
  /\ __contains__(du, "total")

\* the result of a call: an exception, or the raw text matched, or False
Raise(e) == [exc |-> e, matched |-> FALSE, raw |-> ""]
Return(raw) == [exc |-> "", matched |-> TRUE, raw |-> raw]
ReturnFalse == [exc |-> "", matched |-> FALSE, raw |-> ""]

\* the mutant forgets the '_p' suffix of a percentage condition
CondVarRaw(c) == c.var

\* lines 188-189: a float threshold is compared with the '_p' field
CondVar(c) == IF c.val.t = "float" THEN AppendP(c.var) ELSE c.var

\* lines 187-194: the loop over the conditions, from the i-th on
RECURSIVE CheckLoop(_, _, _)
CheckLoop(conditions, du, i) ==
  IF i > Len(conditions) THEN ReturnFalse
  ELSE LET c == conditions[i]
           r == BinaryOperator(c.op, DictGet(du, CondVar(c)), c.val)
       IN IF r.exc # "" THEN Raise(r.exc)
          ELSE IF r.val THEN Return(c.raw)
          ELSE CheckLoop(conditions, du, i + 1)

\* AlertCheck.__call__
AlertCheck__call__(conditions, disk_usage) ==
  LET du == disk_usage
  IN IF ~validate_params(du) THEN Raise("ValueError")
     ELSE IF DictGet(du, "total").num = 0 THEN Raise("ZeroDivisionError")
     ELSE LET total == DictGet(du, "total").num
              du1 == __setitem__(du, "used_p", PyFloat(DictGet(du, "used").num, total))
              du2 == __setitem__(du1, "free_p", PyFloat(DictGet(du, "free").num, total))
          IN CheckLoop(conditions, du2, 1)

(***************************************************************************)
(* Inputs of the evaluator: condition lists and samples.                   *)
(***************************************************************************)
\* the condition list of test() (line 271), scaled to the model's sizes
TestConditions ==
  << Cond("FREE", "==", PyInt(3), "FREE == 3"),
     Cond("FREE", "<", PyInt(1), "FREE < 1"),
     Cond("USED", ">", PyInt(1), "USED > 1"),
     Cond("USED", ">", PyFloat(95, 100), "USED > 95%") >>

\* further conditions the grammar of parse() accepts
MoreConditions ==
  << Cond("total", ">=", PyFloat(50, 100), "total >= 50%"),
     Cond("inode", "==", PyInt(2), "inode == 2"),
     Cond("inode", ">", PyInt(1), "inode > 1"),
     Cond("free", "<=", PyFloat(50, 100), "free <= 50%") >>

ConditionPool == SeqRange(TestConditions) \cup SeqRange(MoreConditions)

RECURSIVE SeqsUpTo(_, _)
SeqsUpTo(S, n) ==
  IF n = 0 THEN {<< >>}
  ELSE LET shorter == SeqsUpTo(S, n - 1)
       IN shorter \cup {Append(s, x) : s \in {q \in shorter : Len(q) = n - 1}, x \in S}

ConditionLists == SeqsUpTo(ConditionPool, MaxConds) \ {<< >>}

\* the spellings of the three keys a sample is given with ("" leaves the key out)
KeySpellings ==
  { <<"used", "free", "total">>,
    <<"USED", "Free", "total">>,
    <<"used", "free", "TOTAL">>,
    <<"", "free", "total">>,
    <<"used", "", "total">>,
    <<"used", "free", "">> }

MakeSample(keys, u, f, t) ==
  LET items == << <<keys[1], PyInt(u)>>, <<keys[2], PyInt(f)>>, <<keys[3], PyInt(t)>> >>
  IN SelectSeq(items, LAMBDA it : it[1] # "")

Samples ==
  { MakeSample(k, u, f, t) : k \in KeySpellings, u \in 0..MaxVal, f \in 0..MaxVal, t \in 0..MaxVal }


(***************************************************************************)
(* Plain dicts (AlertBuffer.buffer, AlertChannel._channel_cache).          *)
(***************************************************************************)
PlainHas(d, k) == \E i \in 1..Len(d) : d[i][1] = k

PlainGet(d, k) == d[ExactIdx(d, k)][2]

PlainSet(d, k, v) ==
  IF PlainHas(d, k) THEN [d EXCEPT ![ExactIdx(d, k)] = <<k, v>>]
  ELSE Append(d, <<k, v>>)

\* dict.values(), in insertion order
PlainValues(d) == [i \in 1..Len(d) |-> d[i][2]]

\* the items of a dict, as a set
Items(d) == {d[i] : i \in 1..Len(d)}

(***************************************************************************)
(* Configuration and requests.                                             *)
(***************************************************************************)
Interval == 2       \* disku.alert_interval, in clock ticks

\* AlertChannel.__subclasses__(): the classes of disku.py that derive from it
Subclasses == << <<"Webhook", "AlertChannel">> >>

\* the configurations a server is started with: the channel name, what the
\* channel's mixin value holds, and the alert conditions
Configs ==
  { [alert_channel |-> "webhook", mixin |-> "object", conditions |-> TestConditions],
    [alert_channel |-> "WebHook", mixin |-> "malformed",
     conditions |-> Append(TestConditions, MoreConditions[3])],
    [alert_channel |-> "slack", mixin |-> "object", conditions |-> TestConditions],
    [alert_channel |-> "webhook", mixin |-> "null", conditions |-> TestConditions] }

\* client_info of a report ("" is an absent or empty value)
Clients ==
  { [identifier |-> "a", hostname |-> "b"],
    [identifier |-> "", hostname |-> "b"] }

\* the samples reports carry: over a threshold, under all of them, keys in
\* upper case, and an empty disk
ReportSamples ==
  { MakeSample(<<"used", "free", "total">>, 3, 0, 3),
    MakeSample(<<"used", "free", "total">>, 1, 2, 3),
    MakeSample(<<"USED", "Free", "total">>, 3, 0, 3),
    MakeSample(<<"used", "free", "total">>, 0, 0, 0) }

\* the paths an agent monitors
Paths == <<"/", "/var">>

\* disk_usage: a dict of the first n paths
DiskUsages ==
  UNION { { [i \in 1..n |-> <<Paths[i], f[i]>>] : f \in [1..n -> ReportSamples] }
          : n \in 1..Len(Paths) }

\* request.json: a body without the two keys is answered 400
Requests ==
  { [valid |-> TRUE, client_info |-> c, disk_usage |-> du] : c \in Clients, du \in DiskUsages }
  \cup { [valid |-> FALSE, client_info |-> c, disk_usage |-> << >>] : c \in Clients }


(***************************************************************************)
(* AlertChannel: _find_subclass, load, WebhookAlertChannel.                *)
(***************************************************************************)
\* (name + parent.__name__).lower(), a class name being <<prefix, parent name>>
LowerName(n) == <<Lower(n[1]), Lower(n[2])>>

\* _find_subclass: the raise sits inside the loop, so only the first subclass
\* is ever compared; with no subclass at all the function returns None
_find_subclass(subclasses, name) ==
  IF Len(subclasses) = 0 THEN [exc |-> "", klass |-> <<"None", "">>]
  ELSE IF LowerName(subclasses[1]) = LowerName(<<name, "AlertChannel">>)
       THEN [exc |-> "", klass |-> subclasses[1]]
       ELSE [exc |-> "KeyError", klass |-> <<"None", "">>]

\* WebhookAlertChannel.prepare: json.loads of the mixin value, {} if malformed
WebhookPrepare(instance, mixin) ==
  [instance EXCEPT !.mixin = IF mixin = "malformed" THEN "empty" ELSE mixin,
                   !.prepared = @ + 1]

\* dict.setdefault: the cache afterwards (the value is then cache[name])
setdefault(cache, name, inst) ==
  IF PlainHas(cache, name) THEN cache ELSE Append(cache, <<name, inst>>)

\* the mutant looks the class up and constructs before it asks the cache
loadUncached(cache, insts, cfg) ==
  LET name == cfg.alert_channel
      found == _find_subclass(Subclasses, name)
      fresh == [klass |-> found.klass, namespace |-> Lower(name), mixin |-> "unset",
                prepared |-> 0]
      insts1 == Append(insts, WebhookPrepare(fresh, cfg.mixin))
  IN IF found.exc # ""
     THEN [exc |-> found.exc, inst |-> 0, cache |-> cache, insts |-> insts, path |-> "KeyError"]
     ELSE [exc |-> "", inst |-> Len(insts1), cache |-> PlainSet(cache, name, Len(insts1)),
           insts |-> insts1, path |-> "miss"]

\* AlertChannel.load, run to completion: the instance returned (its index in
\* insts), the cache and the instances afterwards
load(cache, insts, cfg) ==
  LET name == cfg.alert_channel
      found == _find_subclass(Subclasses, name)
      fresh == [klass |-> found.klass, namespace |-> Lower(name), mixin |-> "unset",
                prepared |-> 0]
      insts1 == Append(insts, WebhookPrepare(fresh, cfg.mixin))
  IN IF PlainHas(cache, name)
     THEN [exc |-> "", inst |-> PlainGet(cache, name), cache |-> cache, insts |-> insts,
           path |-> "hit"]
     ELSE IF found.exc # ""
     THEN [exc |-> found.exc, inst |-> 0, cache |-> cache, insts |-> insts, path |-> "KeyError"]
     ELSE IF found.klass[1] = "None"
     THEN [exc |-> "TypeError", inst |-> 0, cache |-> cache, insts |-> insts, path |-> "TypeError"]
     ELSE [exc |-> "", inst |-> PlainGet(setdefault(cache, name, Len(insts1)), name),
           cache |-> setdefault(cache, name, Len(insts1)), insts |-> insts1, path |-> "miss"]

\* what the webhook answers, or that the request itself failed
SinkOutcomes == {"200", "non200", "ioerror"}

\* WebhookAlertChannel.fire: dict(self.mixin) raises on a mixin that is no
\* mapping; any failure of the request is caught and turned into False
WebhookFire(instance, outcome) ==
  IF instance.mixin = "null" THEN [exc |-> "TypeError", ret |-> FALSE]
  ELSE [exc |-> "", ret |-> (outcome = "200")]

\* server.fire_alerts(buffer)
fire_alerts(cache, insts, cfg, buf, outcome) ==
  LET l == load(cache, insts, cfg)
      text == PlainValues(buf)
  IN IF l.exc # ""
     THEN [exc |-> l.exc, cache |-> l.cache, insts |-> l.insts, load |-> l.path,
           inst |-> 0, sink |-> "none", text |-> << >>]
     ELSE LET f == WebhookFire(l.insts[l.inst], outcome)
          IN [exc |-> f.exc, cache |-> l.cache, insts |-> l.insts, load |-> l.path,
              inst |-> l.inst,
              sink |-> IF f.exc # "" THEN "none" ELSE outcome,
              text |-> IF f.exc # "" THEN << >> ELSE text]

(***************************************************************************)
(* AlertBuffer.push, run to completion.                                     *)
(***************************************************************************)
NoFire == [exc |-> "", load |-> "none", inst |-> 0, sink |-> "none", text |-> << >>]

\* line 263
FlushDue(t, next) == t >= next

\* line 267
NextTimeAfter(t, next) == t + Interval

\* line 261
Store(buf, identifier, data) == PlainSet(buf, identifier, data)

\* push(identifier, data) at clock t, the callback taking d ticks
push(buf, next, cache, insts, cfg, identifier, data, t, d, outcome) ==
  LET buf1 == Store(buf, identifier, data)
      fa == fire_alerts(cache, insts, cfg, buf1, outcome)
  IN IF ~FlushDue(t, next)
     THEN [exc |-> "", buffer |-> buf1, next_time |-> next, cache |-> cache,
           insts |-> insts, fired |-> 0, batch |-> << >>, fa |-> NoFire, elapsed |-> 0]
     ELSE IF fa.exc # ""
     THEN [exc |-> fa.exc, buffer |-> buf1, next_time |-> next, cache |-> fa.cache,
           insts |-> fa.insts, fired |-> 1, batch |-> buf1,
           fa |-> [exc |-> fa.exc, load |-> fa.load, inst |-> fa.inst, sink |-> fa.sink,
                   text |-> fa.text],
           elapsed |-> d]
     ELSE [exc |-> "", buffer |-> << >>, next_time |-> NextTimeAfter(t + d, next),
           cache |-> fa.cache, insts |-> fa.insts, fired |-> 1, batch |-> buf1,
           fa |-> [exc |-> fa.exc, load |-> fa.load, inst |-> fa.inst, sink |-> fa.sink,
                   text |-> fa.text],
           elapsed |-> d]

(***************************************************************************)
(* server.report: the loop over the paths of a report.                     *)
(***************************************************************************)
client_name(client) ==
  IF client.identifier # "" THEN client.identifier ELSE client.hostname

\* one formatted line: the arguments of disku.alert_msg.format
Line(machine, path, condition, usage) ==
  [machine |-> machine, path |-> path, condition |-> condition, usage |-> usage]

\* line 56: except ValueError
Caught(exc) == exc = "ValueError"

\* lines 52-66, from the i-th path on; msgs are the lines so far
RECURSIVE EvalPaths(_, _, _, _, _)
EvalPaths(conditions, machine, disk_usage, i, msgs) ==
  IF i > Len(disk_usage) THEN [exc |-> "", msgs |-> msgs]
  ELSE LET path == disk_usage[i][1]
           usage == disk_usage[i][2]
           cond == AlertCheck__call__(conditions, usage)
       IN IF cond.exc # "" /\ Caught(cond.exc)
          THEN EvalPaths(conditions, machine, disk_usage, i + 1, msgs)
          ELSE IF cond.exc # ""
          THEN [exc |-> cond.exc, msgs |-> msgs]
          ELSE IF cond.matched
          THEN EvalPaths(conditions, machine, disk_usage, i + 1,
                         Append(msgs, Line(machine, path, cond.raw, usage)))
          ELSE EvalPaths(conditions, machine, disk_usage, i + 1, msgs)

\* lines 52-66 for every configuration and request: the exception that leaves
\* the loop, or the lines it collected
Evaluated ==
  [cfg \in Configs |-> [req \in Requests |->
     EvalPaths(cfg.conditions, client_name(req.client_info), req.disk_usage, 1, << >>)]]


(***************************************************************************)
(* State.                                                                  *)
(***************************************************************************)
VARIABLES
  config,         \* app.config: what the server was started with
  now,            \* time.time()
  next_time,      \* AlertBuffer.next_time
  buffer,         \* AlertBuffer.buffer
  channel_cache,  \* AlertChannel._channel_cache: name -> index into instances
  instances,      \* every channel instance constructed so far
  last,           \* what the latest step did and what it handed to whom
  acc,            \* history: the pushes since the callback was last invoked
  handed,         \* history: the identifiers whose pending message was handed
                  \* to the callback and has not been pushed since
  nfired,         \* history: how often the callback has been invoked
  returned,       \* history: the instances load has returned
  check,          \* the evaluator on its own: an input and its result
  threads,        \* concurrent handlers: where each is and its local variables
  owner,          \* history: identifier -> serial number of the push pending for it
  npush,          \* history: how many pushes have been started
  overwritten,    \* history: the pushes whose message a later push replaced
  delivered       \* history: per push, in how many batches the callback read it

vars == <<config, now, next_time, buffer, channel_cache, instances, last, acc,
          handed, nfired, returned, check, threads, owner, npush, overwritten,
          delivered>>

conc_vars == <<threads, owner, npush, overwritten, delivered>>

server_vars == <<config, now, next_time, buffer, channel_cache, instances, last, acc,
                 handed, nfired, returned, threads, owner, npush, overwritten,
                 delivered>>

MaxPushes == 3      \* most pushes started by the concurrent handlers
NThreads == 2       \* handlers running at once
MaxConcTime == 1    \* the clock runs over 0..MaxConcTime while they do

\* a handler's local variables: its position, push's arguments, the serial
\* number of its push, the dict the callback was handed (the buffer object
\* itself while live, the object's last content once push replaced it), and
\* the instance load works with
IdleFrame == [pc |-> "idle", key |-> "", data |-> << >>, tag |-> 0, live |-> FALSE,
              arg |-> << >>, argown |-> << >>, inst |-> 0, exc |-> ""]

InitConcVars ==
  /\ threads = [t \in 1..NThreads |-> IdleFrame]
  /\ owner = << >>
  /\ npush = 0
  /\ overwritten = {}
  /\ delivered = [k \in 1..MaxPushes |-> 0]

Idle == [op |-> "init", status |-> 0, exc |-> "", pushed |-> FALSE, key |-> "",
         data |-> << >>, fired |-> 0, batch |-> << >>, load |-> "none", inst |-> 0,
         sink |-> "none"]

NoCheck == [conditions |-> << >>, disk_usage |-> << >>, done |-> FALSE, result |-> ReturnFalse]

\* init_server(): an AlertBuffer with next_time = 0 and an empty buffer, an
\* empty channel cache
Init ==
  /\ config \in Configs
  /\ now \in 0..1
  /\ next_time = 0
  /\ buffer = << >>
  /\ channel_cache = << >>
  /\ instances = << >>
  /\ last = Idle
  /\ acc = << >>
  /\ handed = {}
  /\ nfired = 0
  /\ returned = {}
  /\ check = NoCheck
  /\ InitConcVars

(***************************************************************************)
(* server.report, one request handled from start to end.                   *)
(***************************************************************************)
\* the request is answered before the buffer is reached: a body without the
\* two keys, an exception of the checker that is not caught, or no message
ReportNoPush(status, exc) ==
  /\ last' = [Idle EXCEPT !.op = "report", !.status = status, !.exc = exc]
  /\ UNCHANGED <<now, next_time, buffer, channel_cache, instances, acc, handed,
                 nfired, returned>>

\* lines 68-71: the push of the report's messages; the callback, when it is
\* invoked, takes d ticks and the webhook answers with outcome
ReportPush(machine, msgs, d, outcome) ==
  \E p \in {push(buffer, next_time, channel_cache, instances, config,
                 machine, msgs, now, d, outcome)} :
    LET acc1 == PlainSet(acc, machine, msgs)
        handed1 == handed \ {machine}
    IN /\ now' = now + p.elapsed
       /\ next_time' = p.next_time
       /\ buffer' = p.buffer
       /\ channel_cache' = p.cache
       /\ instances' = p.insts
       /\ nfired' = nfired + p.fired
       /\ acc' = IF p.fired = 1 THEN << >> ELSE acc1
       /\ handed' = IF p.fired = 1 THEN SeqRange(DictKeys(p.buffer)) ELSE handed1
       /\ returned' = IF p.fa.inst # 0 THEN returned \cup {p.fa.inst} ELSE returned
       /\ last' = [op |-> "report",
                   status |-> IF p.exc # "" THEN 500 ELSE 200,
                   exc |-> p.exc,
                   pushed |-> TRUE, key |-> machine, data |-> msgs,
                   fired |-> p.fired, batch |-> p.batch,
                   load |-> p.fa.load, inst |-> p.fa.inst, sink |-> p.fa.sink]

Report(req) ==
  /\ nfired < MaxFires
  /\ UNCHANGED <<config, check, conc_vars>>
  /\ IF ~req.valid THEN ReportNoPush(400, "")
     ELSE \E ev \in {Evaluated[config][req]} :
            IF ev.exc # "" THEN ReportNoPush(500, ev.exc)
            ELSE IF ev.msgs = << >> THEN ReportNoPush(200, "")
            ELSE IF ~FlushDue(now, next_time)
            THEN ReportPush(client_name(req.client_info), ev.msgs, 0, "200")
            ELSE \E d \in 0..MaxFireTime : \E outcome \in SinkOutcomes :
                   /\ now + d <= MaxTime
                   /\ ReportPush(client_name(req.client_info), ev.msgs, d, outcome)

\* the mutant is a timer that flushes the buffer once the deadline has passed
TickEager ==
  /\ now < MaxTime
  /\ now' = now + 1
  /\ last' = [Idle EXCEPT !.op = "tick"]
  /\ IF buffer # << >> /\ now + 1 >= next_time
     THEN /\ buffer' = << >>
          /\ next_time' = now + 1 + Interval
          /\ nfired' = nfired
          /\ UNCHANGED <<config, channel_cache, instances, acc, handed, returned, check,
                         conc_vars>>
     ELSE UNCHANGED <<config, next_time, buffer, channel_cache, instances, acc, handed,
                      nfired, returned, check, conc_vars>>

\* the wall clock advances while no request is being handled
Tick ==
  /\ now < MaxTime
  /\ now' = now + 1
  /\ last' = [Idle EXCEPT !.op = "tick"]
  /\ UNCHANGED <<config, next_time, buffer, channel_cache, instances, acc, handed,
                 nfired, returned, check, conc_vars>>

Next ==
  \/ \E req \in Requests : Report(req)
  \/ Tick

Spec == Init /\ [][Next]_vars


(***************************************************************************)
(* The evaluator on its own: AlertCheck(conditions)(disk_usage) for every  *)
(* enumerated condition list and sample.                                   *)
(***************************************************************************)
InitEval ==
  /\ config = CHOOSE c \in Configs : c.alert_channel = "webhook" /\ c.mixin = "object"
  /\ now = 0
  /\ next_time = 0
  /\ buffer = << >>
  /\ channel_cache = << >>
  /\ instances = << >>
  /\ last = Idle
  /\ acc = << >>
  /\ handed = {}
  /\ nfired = 0
  /\ returned = {}
  /\ InitConcVars
  /\ check \in { [conditions |-> c, disk_usage |-> u, done |-> FALSE, result |-> ReturnFalse] :
                 c \in ConditionLists, u \in Samples }

Evaluate ==
  /\ ~check.done
  /\ check' = [check EXCEPT !.done = TRUE,
                            !.result = AlertCheck__call__(check.conditions, check.disk_usage)]
  /\ UNCHANGED server_vars

NextEval == Evaluate

SpecEval == InitEval /\ [][NextEval]_vars


(***************************************************************************)
(* Properties of AlertBuffer and of the report handler (under Spec).       *)
(***************************************************************************)
Keys(d) == SeqRange(DictKeys(d))

\* C1: a push flushes if and only if now >= next_time; the callback is then
\* invoked exactly once with the pending mapping including the message just
\* pushed, the buffer becomes empty and next_time becomes the time read at
\* line 267 plus the interval; the first push of a process always flushes.
C1_PushFlushesIffDue ==
  [][last'.pushed =>
       /\ (last'.fired = 1) <=> (now >= next_time)
       /\ nfired' = nfired + (IF now >= next_time THEN 1 ELSE 0)
       /\ (now >= next_time =>
             /\ Items(last'.batch) = Items(PlainSet(buffer, last'.key, last'.data))
             /\ buffer' = << >>
             /\ next_time' = now' + Interval)
       /\ (next_time = 0 => last'.fired = 1)]_vars

\* C2: a push made while now < next_time never invokes the callback and only
\* accumulates; the batch handed to the callback holds exactly the last
\* message pushed for every identifier pushed since the callback was last
\* invoked, and nothing else.
C2_BatchIsLastWrites ==
  [][last'.pushed =>
       /\ (now < next_time =>
             /\ nfired' = nfired
             /\ Items(buffer') = Items(PlainSet(buffer, last'.key, last'.data)))
       /\ (last'.fired = 1 =>
             Items(last'.batch) = Items(PlainSet(acc, last'.key, last'.data)))]_vars

\* C3: no eager flush: a step without a push (time passing, whatever the
\* deadline) leaves the buffer and the deadline as they are and invokes the
\* callback not at all.
C3_NoFlushWithoutPush ==
  [][~last'.pushed =>
       /\ buffer' = buffer
       /\ next_time' = next_time
       /\ nfired' = nfired
       /\ handed' = handed]_vars

\* C3's case: messages are pending, the deadline has passed, and the latest
\* step was the clock's
C3_Witness ==
  /\ last.op = "tick"
  /\ buffer # << >>
  /\ now > next_time
  /\ now = MaxTime

\* C5: no exception leaves the report handler.
C5_NoExceptionEscapes == last.op = "report" => last.exc = ""

\* C7: every load of the configured name returns one and the same instance,
\* prepare() has run once in total; a name that matches no subclass fails with
\* KeyError and leaves the cache as it was (empty).
Registered(name) ==
  \E i \in 1..Len(Subclasses) : Lower(Subclasses[i][1]) = Lower(name)

PrepareRuns == LET f[i \in 0..Len(instances)] ==
                     IF i = 0 THEN 0 ELSE f[i - 1] + instances[i].prepared
               IN f[Len(instances)]

C7_LoadCachesInstance ==
  /\ Cardinality(returned) <= 1
  /\ (last.load \in {"hit", "miss"} => returned = {last.inst})
  /\ (returned # {} => PrepareRuns = 1 /\ Len(instances) = 1)
  /\ (last.load # "none" /\ ~Registered(config.alert_channel) =>
        /\ last.load = "KeyError" /\ last.exc = "KeyError"
        /\ channel_cache = << >> /\ returned = {})
  /\ (last.load # "none" /\ Registered(config.alert_channel) =>
        last.load \in {"hit", "miss"})

\* C7's case: a second load was answered from the cache
C7_Witness == last.load = "hit" /\ returned = {1} /\ nfired >= 2

\* C9: nothing handed to the callback is handed to it again unless it was
\* pushed again in between, whatever the callback did.
C9_NeverHandedAgain ==
  [][last'.fired = 1 => Keys(last'.batch) \cap (handed \ {last'.key}) = {}]_vars

\* one line for every path from the i-th on whose sample the checker answers
\* with a condition, in the order of the report
RECURSIVE MatchingLines(_, _, _, _)
MatchingLines(conditions, machine, disk_usage, i) ==
  IF i > Len(disk_usage) THEN << >>
  ELSE LET cond == AlertCheck__call__(conditions, disk_usage[i][2])
           rest == MatchingLines(conditions, machine, disk_usage, i + 1)
       IN IF cond.matched
          THEN <<Line(machine, disk_usage[i][1], cond.raw, disk_usage[i][2])>> \o rest
          ELSE rest

\* the key a report is to be pushed under: the identifier, or else the hostname
ReportKey(req) ==
  IF req.client_info.identifier # "" THEN req.client_info.identifier
  ELSE req.client_info.hostname

\* the lines of the matching paths, for every configuration and request
Matching ==
  [cfg \in Configs |-> [req \in Requests |->
     MatchingLines(cfg.conditions, ReportKey(req), req.disk_usage, 1)]]

\* C11: handling a report with at least one matching path makes exactly one
\* push, keyed by the identifier or else the hostname, whose message has one
\* line for every matching path; handling a report with no matching path
\* makes no push, leaves the buffer and the deadline as they are and invokes
\* the callback not at all, also when the deadline has passed.
C11_OnePushPerReport ==
  [][\A req \in Requests :
       (req.valid /\ Report(req)) =>
         IF Matching[config][req] # << >>
         THEN /\ last'.pushed
              /\ last'.key = ReportKey(req)
              /\ last'.data = Matching[config][req]
         ELSE /\ ~last'.pushed
              /\ buffer' = buffer
              /\ next_time' = next_time
              /\ nfired' = nfired]_vars

\* the same for the reports whose evaluation raises nothing but the
\* ValueError the handler catches: where C11_OnePushPerReport fails, an
\* exception has left the loop over the paths
OnePushUnlessRaised ==
  [][\A req \in Requests :
       (req.valid /\ Evaluated[config][req].exc = "" /\ Report(req)) =>
         IF Matching[config][req] # << >>
         THEN /\ last'.pushed
              /\ last'.key = ReportKey(req)
              /\ last'.data = Matching[config][req]
         ELSE /\ ~last'.pushed
              /\ buffer' = buffer
              /\ next_time' = next_time
              /\ nfired' = nfired]_vars


(***************************************************************************)
(* Properties of the evaluator (under SpecEval).                           *)
(***************************************************************************)
\* the sample has a key that is k in some letter case
Provides(u, k) == \E i \in 1..Len(u) : Lower(u[i][1]) = k

\* the value the sample gives for k (the samples spell no key twice)
Field(u, k) == u[CHOOSE i \in 1..Len(u) : Lower(u[i][1]) = Lower(k)][2].num

IntCompare(op, a, b) ==
  \/ op = "<" /\ a < b
  \/ op = "<=" /\ a <= b
  \/ op = ">" /\ a > b
  \/ op = ">=" /\ a >= b
  \/ op = "==" /\ a = b

\* what the comparison of a condition is to be: v / total against the
\* percentage, or v against the size
Holds(c, u) ==
  /\ Provides(u, Lower(c.var))
  /\ IF c.val.t = "float"
     THEN /\ Provides(u, "total")
          /\ Field(u, "total") > 0
          /\ IntCompare(c.op, Field(u, c.var) * c.val.den, c.val.num * Field(u, "total"))
     ELSE IntCompare(c.op, Field(u, c.var), c.val.num)

\* the raw text of the first condition that holds, in declaration order
FirstMatch(conditions, u) ==
  IF \E i \in 1..Len(conditions) : Holds(conditions[i], u)
  THEN LET i == CHOOSE j \in 1..Len(conditions) :
                  /\ Holds(conditions[j], u)
                  /\ \A k \in 1..(j - 1) : ~Holds(conditions[k], u)
       IN Return(conditions[i].raw)
  ELSE ReturnFalse

OnFields(conditions) ==
  \A i \in 1..Len(conditions) :
    IF conditions[i].val.t = "float"
    THEN Lower(conditions[i].var) \in {"used", "free"}
    ELSE Lower(conditions[i].var) \in {"used", "free", "total"}

C10_ValidationIgnoresCase ==
  check.done =>
    ( (check.result.exc = "ValueError") <=>
      ~( /\ Provides(check.disk_usage, "used")
         /\ Provides(check.disk_usage, "free")
         /\ Provides(check.disk_usage, "total") ) )


(***************************************************************************)
(* Handlers running at once (server='waitress' serves requests from a pool *)
(* of threads).  Nothing in report, push, fire_alerts or load takes a lock, *)
(* so a handler can be preempted between any two statements that touch the *)
(* buffer or the cache; each step below is one such statement.  The        *)
(* evaluation of the samples reads nothing shared and is part of the first *)
(* step.                                                                   *)
(***************************************************************************)
seq_history == <<last, acc, handed, nfired, check>>

Frame(t) == threads[t]

\* lines 46-68: a report whose samples yield messages reaches push; one that
\* yields none, or whose evaluation raises, ends without touching the buffer
Start(t, req) ==
  /\ Frame(t).pc = "idle"
  /\ npush < MaxPushes
  /\ req.valid
  /\ \E ev \in {Evaluated[config][req]} :
       /\ ev.exc = ""
       /\ ev.msgs # << >>
       /\ threads' = [threads EXCEPT ![t] =
            [IdleFrame EXCEPT !.pc = "store", !.key = client_name(req.client_info),
                              !.data = ev.msgs, !.tag = npush + 1]]
  /\ npush' = npush + 1
  /\ UNCHANGED <<config, now, next_time, buffer, channel_cache, instances, returned,
                 owner, overwritten, delivered>>
  /\ UNCHANGED seq_history

\* line 261: self.buffer[identifier] = data
StoreStep(t) ==
  /\ Frame(t).pc = "store"
  /\ buffer' = Store(buffer, Frame(t).key, Frame(t).data)
  /\ owner' = PlainSet(owner, Frame(t).key, Frame(t).tag)
  /\ overwritten' = IF PlainHas(owner, Frame(t).key)
                    THEN overwritten \cup {PlainGet(owner, Frame(t).key)}
                    ELSE overwritten
  /\ threads' = [threads EXCEPT ![t].pc = "check"]
  /\ UNCHANGED <<config, now, next_time, channel_cache, instances, returned, npush,
                 delivered>>
  /\ UNCHANGED seq_history

\* line 263, and the call of line 265 with the buffer object as argument
CheckStep(t) ==
  /\ Frame(t).pc = "check"
  /\ threads' = IF FlushDue(now, next_time)
                THEN [threads EXCEPT ![t].pc = "load_get", ![t].live = TRUE]
                ELSE [threads EXCEPT ![t] = IdleFrame]
  /\ UNCHANGED <<config, now, next_time, buffer, channel_cache, instances, returned,
                 owner, npush, overwritten, delivered>>
  /\ UNCHANGED seq_history

\* lines 204-207 of load: the cache is asked
LoadGet(t) ==
  /\ Frame(t).pc = "load_get"
  /\ IF PlainHas(channel_cache, config.alert_channel)
     THEN /\ threads' = [threads EXCEPT ![t].pc = "join",
                           ![t].inst = PlainGet(channel_cache, config.alert_channel)]
          /\ returned' = returned \cup {PlainGet(channel_cache, config.alert_channel)}
     ELSE /\ threads' = [threads EXCEPT ![t].pc = "load_new"]
          /\ UNCHANGED returned
  /\ UNCHANGED <<config, now, next_time, buffer, channel_cache, instances, owner, npush,
                 overwritten, delivered>>
  /\ UNCHANGED seq_history

\* lines 208-215 of load: the class is looked up, an instance constructed and
\* prepared; a KeyError ends the handler
LoadNew(t) ==
  /\ Frame(t).pc = "load_new"
  /\ LET found == _find_subclass(Subclasses, config.alert_channel)
         fresh == [klass |-> found.klass, namespace |-> Lower(config.alert_channel),
                   mixin |-> "unset", prepared |-> 0]
     IN IF found.exc # ""
        THEN /\ threads' = [threads EXCEPT ![t] = [IdleFrame EXCEPT !.exc = found.exc]]
             /\ UNCHANGED instances
        ELSE /\ instances' = Append(instances, WebhookPrepare(fresh, config.mixin))
             /\ threads' = [threads EXCEPT ![t].pc = "load_set",
                                           ![t].inst = Len(instances) + 1]
  /\ UNCHANGED <<config, now, next_time, buffer, channel_cache, returned, owner, npush,
                 overwritten, delivered>>
  /\ UNCHANGED seq_history

\* line 216 of load: return cls._channel_cache.setdefault(name, instance)
LoadSet(t) ==
  /\ Frame(t).pc = "load_set"
  /\ channel_cache' = setdefault(channel_cache, config.alert_channel, Frame(t).inst)
  /\ threads' = [threads EXCEPT ![t].pc = "join",
                                ![t].inst = PlainGet(channel_cache', config.alert_channel)]
  /\ returned' = returned \cup {PlainGet(channel_cache', config.alert_channel)}
  /\ UNCHANGED <<config, now, next_time, buffer, instances, owner, npush, overwritten,
                 delivered>>
  /\ UNCHANGED seq_history

\* line 34 of fire_alerts: the values of the dict handed over are joined and
\* sent; an exception of fire ends the handler
Join(t, outcome) ==
  /\ Frame(t).pc = "join"
  /\ LET own == IF Frame(t).live THEN owner ELSE Frame(t).argown
         f == WebhookFire(instances[Frame(t).inst], outcome)
     IN IF f.exc # ""
        THEN /\ threads' = [threads EXCEPT ![t] = [IdleFrame EXCEPT !.exc = f.exc]]
             /\ UNCHANGED delivered
        ELSE /\ threads' = [threads EXCEPT ![t].pc = "clear"]
             /\ delivered' = [k \in 1..MaxPushes |->
                                IF k \in SeqRange(PlainValues(own))
                                THEN delivered[k] + 1 ELSE delivered[k]]
  /\ UNCHANGED <<config, now, next_time, buffer, channel_cache, instances, returned,
                 owner, npush, overwritten>>
  /\ UNCHANGED seq_history

\* line 266: self.buffer = {}; a handler that was handed the old object keeps it
ClearStep(t) ==
  /\ Frame(t).pc = "clear"
  /\ buffer' = << >>
  /\ owner' = << >>
  /\ threads' = [u \in 1..NThreads |->
                   IF u = t THEN [threads[u] EXCEPT !.pc = "settime", !.live = FALSE]
                   ELSE IF threads[u].live
                   THEN [threads[u] EXCEPT !.live = FALSE, !.arg = buffer, !.argown = owner]
                   ELSE threads[u]]
  /\ UNCHANGED <<config, now, next_time, channel_cache, instances, returned, npush,
                 overwritten, delivered>>
  /\ UNCHANGED seq_history

\* line 267
SetTimeStep(t) ==
  /\ Frame(t).pc = "settime"
  /\ next_time' = NextTimeAfter(now, next_time)
  /\ threads' = [threads EXCEPT ![t] = IdleFrame]
  /\ UNCHANGED <<config, now, buffer, channel_cache, instances, returned, owner, npush,
                 overwritten, delivered>>
  /\ UNCHANGED seq_history

\* the clock advances while handlers run
TickConc ==
  /\ now < MaxConcTime
  /\ now' = now + 1
  /\ UNCHANGED <<config, next_time, buffer, channel_cache, instances, returned,
                 threads, owner, npush, overwritten, delivered>>
  /\ UNCHANGED seq_history

\* the reports the concurrent handlers receive: one path each
ConcRequests == {req \in Requests : req.valid /\ Len(req.disk_usage) = 1}

\* a server whose channel is configured as the code expects
InitConc ==
  /\ Init
  /\ config.alert_channel = "webhook"
  /\ config.mixin = "object"
  /\ now = 0

NextConc ==
  \/ \E t \in 1..NThreads : \E req \in ConcRequests : Start(t, req)
  \/ \E t \in 1..NThreads : StoreStep(t)
  \/ \E t \in 1..NThreads : CheckStep(t)
  \/ \E t \in 1..NThreads : LoadGet(t)
  \/ \E t \in 1..NThreads : LoadNew(t)
  \/ \E t \in 1..NThreads : LoadSet(t)
  \/ \E t \in 1..NThreads : \E outcome \in SinkOutcomes : Join(t, outcome)
  \/ \E t \in 1..NThreads : ClearStep(t)
  \/ \E t \in 1..NThreads : SetTimeStep(t)
  \/ TickConc

SpecConc == InitConc /\ [][NextConc]_vars

(***************************************************************************)
(* Properties of concurrent handlers (under SpecConc).                     *)
(***************************************************************************)
AllIdle == \A t \in 1..NThreads : Frame(t).pc = "idle"

\* C4: under every interleaving, once the handlers have returned each pushed
\* message has been delivered in a batch, is still pending, or was overwritten
\* by a later push of its identifier; and none is delivered in two batches.
C4_NoLossNoDoubleFlush ==
  /\ \A k \in 1..MaxPushes : delivered[k] <= 1
  /\ (AllIdle =>
        \A k \in 1..npush :
          \/ delivered[k] >= 1
          \/ k \in SeqRange(PlainValues(owner))
          \/ k \in overwritten)

\* C8: concurrent first callers of load construct one instance, prepare()
\* runs once, and all of them receive that instance.
C8_OneInstanceUnderRace ==
  /\ Len(instances) <= 1
  /\ PrepareRuns <= 1
  /\ Cardinality(returned) <= 1

=============================================================================
